---- MODULE Spec2Model ----
(***************************************************************************)
(* A model of the two scripts of the repository:                           *)
(*   Indirect_s1_raster_split.py   split_raster_by_grid                    *)
(*   Indirect_s2_biodiversity_decline_rate.py  run_habitat_quality_analysis*)
(* Distances are integer-valued floats (km, metres per pixel); a raster's  *)
(* pixel data is represented by the set of pixels that differ from the     *)
(* no-data value in some band.                                             *)
(***************************************************************************)
EXTENDS Integers, Sequences, FiniteSets, TLC

VARIABLES src, grid_size_km, overlap_km, pc, err, plan, order, k, window,
          files, log,
          lulc_files, fut_exists, bpc, idx, blog

vars == <<src, grid_size_km, overlap_km, pc, err, plan, order, k, window,
          files, log, lulc_files, fut_exists, bpc, idx, blog>>

splitVars == <<src, grid_size_km, overlap_km, pc, err, plan, order, k, window,
               files, log>>

batchVars == <<lulc_files, fut_exists, bpc, idx, blog>>

\* ------------------------------------------------------------------ bounds

MaxWidth == 3

MaxHeight == 2

MaxKm == 3

MaxFiles == 3

\* ------------------------------------------------------------- arithmetic

Abs(n) == IF n < 0 THEN -n ELSE n

Min(m, n) == IF m <= n THEN m ELSE n

\* Python's int() of a float quotient: truncation toward zero (d # 0).
TruncDiv(n, d) ==
    IF d > 0
    THEN IF n >= 0 THEN n \div d ELSE -((-n) \div d)
    ELSE IF n >= 0 THEN -(n \div (-d)) ELSE (-n) \div (-d)

\* Python's // on integers: floor division (d # 0).
FloorDiv(n, d) == IF d > 0 THEN n \div d ELSE (-n) \div (-d)

\* int(km * 1000 / resolution)
KmToPixels(km, resolution) == TruncDiv(km * 1000, resolution)

\* ------------------------------------------------------------ grid planner

StepInvalidAnd(step_x, step_y) == step_x <= 0 /\ step_y <= 0

\* if step_x <= 0 or step_y <= 0: raise ValueError(...)
StepInvalid(step_x, step_y) == step_x <= 0 \/ step_y <= 0

NumGridsTruncated(length, step) == FloorDiv(length, step)

NumGridsPlusOne(length, step) == FloorDiv(length, step) + 1

\* (width - 1) // step_x + 1
NumGrids(length, step) == FloorDiv(length - 1, step) + 1

\* The sizes and steps in pixels; num_grids_* are 0 until they are assigned.
GridPlan(transform, gkm, okm) ==
    LET resolution_x == transform.a
        resolution_y == Abs(transform.e)
        gx == KmToPixels(gkm, resolution_x)
        gy == KmToPixels(gkm, resolution_y)
        ox == KmToPixels(okm, resolution_x)
        oy == KmToPixels(okm, resolution_y)
    IN  [grid_size_x |-> gx, grid_size_y |-> gy,
         overlap_x |-> ox, overlap_y |-> oy,
         step_x |-> gx - ox, step_y |-> gy - oy,
         num_grids_x |-> 0, num_grids_y |-> 0]

NoPlan ==
    [grid_size_x |-> 0, grid_size_y |-> 0, overlap_x |-> 0, overlap_y |-> 0,
     step_x |-> 0, step_y |-> 0, num_grids_x |-> 0, num_grids_y |-> 0]

\* ------------------------------------------------------- window enumerator

RangeLen(n) == IF n > 0 THEN n ELSE 0

TileOrderRowMajor(nx, ny) ==
    [p \in 1..(RangeLen(nx) * RangeLen(ny)) |->
        <<(p - 1) % nx, (p - 1) \div nx>>]

\* for i in range(num_grids_x): for j in range(num_grids_y): the index
\* pairs <<i, j>> in the order the nested loops visit them.
TileOrder(nx, ny) ==
    [p \in 1..(RangeLen(nx) * RangeLen(ny)) |->
        <<(p - 1) \div ny, (p - 1) % ny>>]

WindowAtUnclipped(p, width, height, i, j) ==
    [col_off |-> i * p.step_x, row_off |-> j * p.step_y,
     width |-> p.grid_size_x, height |-> p.grid_size_y]

\* x_start, y_start, window_width, window_height of tile (i, j)
WindowAt(p, width, height, i, j) ==
    [col_off |-> i * p.step_x, row_off |-> j * p.step_y,
     width |-> Min(p.grid_size_x, width - i * p.step_x),
     height |-> Min(p.grid_size_y, height - j * p.step_y)]

NoWindow == [col_off |-> 0, row_off |-> 0, width |-> 0, height |-> 0]

InWindow(px, w) ==
    /\ w.col_off <= px[1] /\ px[1] < w.col_off + w.width
    /\ w.row_off <= px[2] /\ px[2] < w.row_off + w.height

\* ------------------------------------------------------- tile materializer

SkipTileAny(nodata, data, w) ==
    nodata /\ \E x \in w.col_off..(w.col_off + w.width - 1),
                 y \in w.row_off..(w.row_off + w.height - 1) : <<x, y>> \notin data

\* nodata_value is not None and np.all(data == nodata_value)
SkipTile(nodata, data, w) ==
    nodata /\ \A px \in data : ~InWindow(px, w)

\* Affine product t1 * t2 (first t2, then t1).
AffineMul(t1, t2) ==
    [a |-> t1.a * t2.a + t1.b * t2.d,
     b |-> t1.a * t2.b + t1.b * t2.e,
     c |-> t1.a * t2.c + t1.b * t2.f + t1.c,
     d |-> t1.d * t2.a + t1.e * t2.d,
     e |-> t1.d * t2.b + t1.e * t2.e,
     f |-> t1.d * t2.c + t1.e * t2.f + t1.f]

Translation(x, y) == [a |-> 1, b |-> 0, c |-> x, d |-> 0, e |-> 1, f |-> y]

\* The world coordinate of pixel (col, row) under transform t.
Apply(t, col, row) ==
    <<t.a * col + t.b * row + t.c, t.d * col + t.e * row + t.f>>

WindowTransformNorthUp(t, w) ==
    [t EXCEPT !.c = t.c + w.col_off * t.a, !.f = t.f - w.row_off * Abs(t.e)]

\* src.window_transform(window): the source transform with its origin moved
\* to the window's top-left pixel.
WindowTransform(t, w) ==
    LET xy == Apply(t, w.col_off, w.row_off)
    IN  AffineMul(Translation(xy[1] - t.c, xy[2] - t.f), t)

\* The file <base_name>_tile_<i>_<j>.tif: its name is the index pair.
TileFile(i, j, w, t, complete) ==
    [name |-> <<i, j>>, window |-> w, transform |-> t, complete |-> complete]

\* What the run reports about tile (i, j): read, skip, write, or a failure.
Event(kind, i, j, w) == [kind |-> kind, i |-> i, j |-> j, window |-> w]

PutFile(fs, file) == {g \in fs : g.name # file.name} \cup {file}

\* ------------------------------------------------------------------ inputs

Transforms ==
    { [a |-> 1000, b |-> 0, c |-> 0, d |-> 0, e |-> -1000, f |-> 0],
      [a |-> 500, b |-> 0, c |-> 10, d |-> 0, e |-> -1000, f |-> 20],
      [a |-> 1000, b |-> 1, c |-> 3, d |-> 2, e |-> -1000, f |-> 7],
      [a |-> 2000, b |-> 0, c |-> 0, d |-> 0, e |-> 1000, f |-> 0],
      [a |-> -1000, b |-> 0, c |-> 0, d |-> 0, e |-> -1000, f |-> 0],
      [a |-> 0, b |-> 0, c |-> 0, d |-> 0, e |-> -1000, f |-> 0] }

Pixels(width, height) == (0..(width - 1)) \X (0..(height - 1))

\* Rasters that are entirely no-data, and rasters with one differing pixel.
DataPatterns(width, height) ==
    {{}} \cup {{px} : px \in Pixels(width, height)}

Rasters ==
    UNION { UNION { { [width |-> w, height |-> h, transform |-> t,
                       nodata |-> n, data |-> dd] :
                         t \in Transforms, n \in BOOLEAN,
                         dd \in DataPatterns(w, h) } :
                    h \in 1..MaxHeight } :
            w \in 1..MaxWidth }

\* --grid_size_km and --overlap_km are parsed as floats with no range check.
Kms == (-1)..MaxKm

BatchIdle ==
    /\ lulc_files = <<>>
    /\ fut_exists = {}
    /\ bpc = "idle"
    /\ idx = 0
    /\ blog = <<>>

SplitStart ==
    /\ pc = "start"
    /\ err = "none"
    /\ plan = NoPlan
    /\ order = <<>>
    /\ k = 1
    /\ window = NoWindow
    /\ files = {}
    /\ log = <<>>

Init ==
    /\ src \in Rasters
    /\ grid_size_km \in Kms
    /\ overlap_km \in Kms
    /\ SplitStart
    /\ BatchIdle

\* -------------------------------------------------- split_raster_by_grid

Fail(kind) ==
    /\ pc' = "error"
    /\ err' = kind

\* os.makedirs(output_dir); rasterio.open(input_raster); the metadata reads
Open ==
    /\ pc = "start"
    /\ pc' = "opened"
    /\ UNCHANGED <<src, grid_size_km, overlap_km, err, plan, order, k, window,
                   files, log>>
    /\ UNCHANGED batchVars

\* The input does not exist (except FileNotFoundError), or the directory
\* cannot be made or the raster not opened (except Exception).
OpenFail ==
    /\ pc = "start"
    /\ \E kind \in {"FileNotFound", "Exception"} : Fail(kind)
    /\ UNCHANGED <<src, grid_size_km, overlap_km, plan, order, k, window,
                   files, log>>
    /\ UNCHANGED batchVars

\* The resolution check, the sizes in pixels, the step check, the tile counts.
Plan ==
    /\ pc = "opened"
    /\ LET t == src.transform
       IN  IF t.a = 0 \/ Abs(t.e) = 0
           THEN Fail("ZeroResolution") /\ UNCHANGED <<plan, order>>
           ELSE LET p == GridPlan(t, grid_size_km, overlap_km)
                IN  IF StepInvalid(p.step_x, p.step_y)
                    THEN Fail("InvalidGridConfig") /\ plan' = p
                         /\ UNCHANGED order
                    ELSE IF p.step_x = 0 \/ p.step_y = 0
                    THEN Fail("ZeroDivision") /\ plan' = p
                         /\ UNCHANGED order
                    ELSE LET nx == NumGrids(src.width, p.step_x)
                             ny == NumGrids(src.height, p.step_y)
                         IN  /\ plan' = [p EXCEPT !.num_grids_x = nx,
                                                  !.num_grids_y = ny]
                             /\ order' = TileOrder(nx, ny)
                             /\ pc' = "loop"
                             /\ UNCHANGED err
    /\ UNCHANGED <<src, grid_size_km, overlap_km, k, window, files, log>>
    /\ UNCHANGED batchVars

\* The loop header and the window of the next tile; Window() refuses a
\* negative width or height. After the last tile the run has completed.
NextTile ==
    /\ pc = "loop"
    /\ IF k > Len(order)
       THEN pc' = "done" /\ UNCHANGED <<err, window>>
       ELSE LET w == WindowAt(plan, src.width, src.height,
                              order[k][1], order[k][2])
            IN  IF w.width < 0 \/ w.height < 0
                THEN Fail("Exception") /\ UNCHANGED window
                ELSE pc' = "read" /\ window' = w /\ UNCHANGED err
    /\ UNCHANGED <<src, grid_size_km, overlap_km, plan, order, k, files, log>>
    /\ UNCHANGED batchVars

\* data = src.read(window=window) and the no-data test
Read ==
    /\ pc = "read"
    /\ LET i == order[k][1]
           j == order[k][2]
       IN  IF SkipTile(src.nodata, src.data, window)
           THEN /\ log' = log \o <<Event("read", i, j, window),
                                  Event("skip", i, j, window)>>
                /\ k' = k + 1
                /\ pc' = "loop"
           ELSE /\ log' = Append(log, Event("read", i, j, window))
                /\ pc' = "write"
                /\ UNCHANGED k
    /\ UNCHANGED <<src, grid_size_km, overlap_km, err, plan, order, window,
                   files>>
    /\ UNCHANGED batchVars

\* src.read raises: the exception leaves the loop (except Exception).
ReadFail ==
    /\ pc = "read"
    /\ Fail("Exception")
    /\ log' = Append(log, Event("readfail", order[k][1], order[k][2], window))
    /\ UNCHANGED <<src, grid_size_km, overlap_km, plan, order, k, window,
                   files>>
    /\ UNCHANGED batchVars

\* The tile's transform, name and profile, and the write of the file. A
\* raster of zero width or height cannot be created.
Write ==
    /\ pc = "write"
    /\ window.width >= 1 /\ window.height >= 1
    /\ LET i == order[k][1]
           j == order[k][2]
           t == WindowTransform(src.transform, window)
       IN  /\ files' = PutFile(files, TileFile(i, j, window, t, TRUE))
           /\ log' = Append(log, Event("write", i, j, window))
    /\ k' = k + 1
    /\ pc' = "loop"
    /\ UNCHANGED <<src, grid_size_km, overlap_km, err, plan, order, window>>
    /\ UNCHANGED batchVars

\* rasterio.open(output_file, 'w') or dst.write raises: the exception
\* leaves the loop; the file is absent or partly written.
WriteFail ==
    /\ pc = "write"
    /\ Fail("Exception")
    /\ LET i == order[k][1]
           j == order[k][2]
           t == WindowTransform(src.transform, window)
       IN  /\ log' = Append(log, Event("writefail", i, j, window))
           /\ \E partial \in BOOLEAN :
                files' = IF partial /\ window.width >= 1 /\ window.height >= 1
                         THEN PutFile(files, TileFile(i, j, window, t, FALSE))
                         ELSE files
    /\ UNCHANGED <<src, grid_size_km, overlap_km, plan, order, k, window>>
    /\ UNCHANGED batchVars

Next ==
    \/ Open
    \/ OpenFail
    \/ Plan
    \/ NextTile
    \/ Read
    \/ ReadFail
    \/ Write
    \/ WriteFail

Spec == Init /\ [][Next]_vars

\* The run of the loop over the index pairs todo, in that order, when the
\* writes of the tiles in faulty raise: the complete files it leaves.
RECURSIVE RunFiles(_, _, _)
RunFiles(todo, faulty, fs) ==
    IF todo = <<>> THEN fs
    ELSE LET ij == Head(todo)
             w == WindowAt(plan, src.width, src.height, ij[1], ij[2])
         IN  IF w.width < 0 \/ w.height < 0 THEN fs
             ELSE IF SkipTile(src.nodata, src.data, w)
             THEN RunFiles(Tail(todo), faulty, fs)
             ELSE IF ij \in faulty \/ w.width < 1 \/ w.height < 1 THEN fs
             ELSE RunFiles(Tail(todo), faulty,
                           PutFile(fs, TileFile(ij[1], ij[2], w,
                                       WindowTransform(src.transform, w), TRUE)))

\* ------------------------------------------------------ claims: the tiler

Terminal == pc \in {"done", "error"}

WindowBuilt == pc \in {"read", "write"}

Reads == SelectSeq(log, LAMBDA ev : ev.kind = "read")

Count(kind, i, j) ==
    Cardinality({p \in 1..Len(log) :
                    log[p].kind = kind /\ log[p].i = i /\ log[p].j = j})

WindowInBounds(w) ==
    /\ w.col_off >= 0 /\ w.row_off >= 0
    /\ w.width >= 1 /\ w.height >= 1
    /\ w.col_off + w.width <= src.width
    /\ w.row_off + w.height <= src.height

\* C1 as stated: whenever the planner does not fail, every window built lies
\* inside the raster and is not empty.
C1_WindowsInBounds_Original == WindowBuilt => WindowInBounds(window)

\* C1, amended: for overlapKm >= 0, every window built lies inside the raster
\* and has at least one pixel in each direction.
C1_WindowsInBounds == (overlap_km >= 0 /\ WindowBuilt) => WindowInBounds(window)

C1_Witness ==
    /\ overlap_km >= 0 /\ pc = "read"
    /\ window.col_off > 0 /\ window.row_off > 0
    /\ window.width < plan.grid_size_x /\ window.height < plan.grid_size_y

TilesX == FloorDiv(src.width - 1, plan.step_x) + 1

TilesY == FloorDiv(src.height - 1, plan.step_y) + 1

ExactCover ==
    /\ Len(Reads) = TilesX * TilesY
    /\ \A i \in 0..(TilesX - 1), j \in 0..(TilesY - 1) :
          Cardinality({p \in 1..Len(Reads) :
                          Reads[p].i = i /\ Reads[p].j = j}) = 1
    /\ \A px \in Pixels(src.width, src.height) :
          \E p \in 1..Len(Reads) : InWindow(px, Reads[p].window)

\* C2 as stated: a run that completes has read tilesX * tilesY windows, one per
\* index pair, and every pixel of the raster lies in one of them.
C2_ExactCover_Original == pc = "done" => ExactCover

\* C2, amended: the same for a completed run with overlapKm >= 0.
C2_ExactCover == (pc = "done" /\ overlap_km >= 0) => ExactCover

C2_Witness ==
    /\ pc = "done" /\ overlap_km > 0
    /\ TilesX >= 2 /\ TilesY >= 2
    /\ \E p \in 1..Len(Reads) : Reads[p].window.width < plan.grid_size_x

BadConfig ==
    \/ overlap_km >= grid_size_km
    \/ /\ src.transform.a # 0 /\ src.transform.e # 0
       /\ LET p == GridPlan(src.transform, grid_size_km, overlap_km)
          IN  p.step_x <= 0 \/ p.step_y <= 0

PlannerRan ==
    /\ pc \notin {"start", "opened"}
    /\ err \notin {"FileNotFound", "Exception", "ZeroResolution"}

\* C3: with overlapKm >= gridSizeKm, or a step <= 0, no window is built, no
\* pixel is read and no file written, and once the planner has run the run has
\* ended in the invalid-grid-configuration error.
C3_InvalidGridConfig ==
    BadConfig =>
        /\ pc \in {"start", "opened", "error"}
        /\ log = <<>> /\ files = {} /\ window = NoWindow
        /\ PlannerRan => (pc = "error" /\ err = "InvalidGridConfig")

C3_Witness ==
    /\ pc = "error" /\ err = "InvalidGridConfig"
    /\ overlap_km < grid_size_km
    /\ plan.step_x <= 0 /\ plan.step_y > 0

AllPixelsNoData(w) ==
    \A x \in w.col_off..(w.col_off + w.width - 1),
       y \in w.row_off..(w.row_off + w.height - 1) : <<x, y>> \notin src.data

FilesNamed(i, j) == {g \in files : g.name = <<i, j>>}

\* C4: no file holds a tile that is entirely no-data; of the tiles the run has
\* finished with, those entirely no-data (no-data value defined) have no file
\* and every other one has exactly one file, named by its indices and written
\* once; a completed run has finished with every tile.
C4_SkipOrWrite ==
    /\ \A g \in files : ~(src.nodata /\ AllPixelsNoData(g.window))
    /\ \A p \in 1..Len(order) :
          p < k =>
            LET i == order[p][1]
                j == order[p][2]
                w == [col_off |-> i * plan.step_x, row_off |-> j * plan.step_y,
                      width |-> Min(plan.grid_size_x, src.width - i * plan.step_x),
                      height |-> Min(plan.grid_size_y, src.height - j * plan.step_y)]
            IN  IF src.nodata /\ AllPixelsNoData(w)
                THEN FilesNamed(i, j) = {} /\ Count("write", i, j) = 0
                ELSE /\ Cardinality(FilesNamed(i, j)) = 1
                     /\ \A g \in FilesNamed(i, j) : g.complete /\ g.window = w
                     /\ Count("write", i, j) = 1
    /\ pc = "done" => k = Len(order) + 1

C4_Witness ==
    /\ pc = "done" /\ src.nodata
    /\ \E p \in 1..Len(log) : log[p].kind = "skip" /\ log[p].window.width >= 2
    /\ \E p \in 1..Len(log) : log[p].kind = "write" /\ log[p].window.width >= 2

\* C5 as stated: after a write failure at a tile, every tile after it in the
\* enumeration is still read.
C5_WriteFailureDoesNotAbort ==
    Terminal =>
        \A p \in 1..Len(order), q \in 1..Len(order) :
            (p < q /\ Count("writefail", order[p][1], order[p][2]) > 0)
                => Count("read", order[q][1], order[q][2]) > 0

RowMajorBefore(e1, e2) == e1.j < e2.j \/ (e1.j = e2.j /\ e1.i < e2.i)

ColumnMajorBefore(e1, e2) == e1.i < e2.i \/ (e1.i = e2.i /\ e1.j < e2.j)

\* C6 as stated: tile (i1, j1) is processed before (i2, j2) exactly when
\* j1 < j2, or j1 = j2 and i1 < i2.
C6_RowMajor_Original ==
    \A p \in 1..Len(Reads), q \in 1..Len(Reads) :
        p < q <=> RowMajorBefore(Reads[p], Reads[q])

\* C6, amended: tile (i1, j1) is processed before (i2, j2) exactly when
\* i1 < i2, or i1 = i2 and j1 < j2 (Y varies fastest, (0,0) first).
C6_ColumnMajor ==
    /\ \A p \in 1..Len(Reads), q \in 1..Len(Reads) :
          p < q <=> ColumnMajorBefore(Reads[p], Reads[q])
    /\ Len(Reads) > 0 => (Reads[1].i = 0 /\ Reads[1].j = 0)

C6_Witness ==
    /\ \E p \in 1..Len(Reads) : Reads[p].i = 0 /\ Reads[p].j = 1
    /\ \E p \in 1..Len(Reads) : Reads[p].i = 1 /\ Reads[p].j = 0

\* C8: the transform of every written tile maps pixel (0,0) to the world
\* coordinate of the window's top-left pixel under the source transform, and
\* has the source's a, b, d and e.
C8_TransformRoundTrip ==
    \A g \in files :
        g.complete =>
            /\ Apply(g.transform, 0, 0)
                 = Apply(src.transform, g.window.col_off, g.window.row_off)
            /\ g.transform.a = src.transform.a /\ g.transform.b = src.transform.b
            /\ g.transform.d = src.transform.d /\ g.transform.e = src.transform.e

C8_Witness ==
    \E g \in files :
        /\ g.complete /\ g.window.col_off > 0 /\ g.window.row_off > 0
        /\ src.transform.b # 0 /\ src.transform.d # 0

CompleteFiles == {g \in files : g.complete}

FaultyTiles ==
    {<<log[p].i, log[p].j>> : p \in {q \in 1..Len(log) : log[q].kind = "writefail"}}

NoReadFailure == \A p \in 1..Len(log) : log[p].kind # "readfail"

OrderPermutations ==
    {[p \in 1..Len(order) |-> order[pi[p]]] : pi \in Permutations(1..Len(order))}

\* The recursive run in the loop's own order leaves the files the actions leave.
RunFilesAgrees ==
    (Terminal /\ NoReadFailure /\ log # <<>>)
        => RunFiles(order, FaultyTiles, {}) = CompleteFiles

\* C9 as stated: whatever the order in which the tiles are processed, also
\* when a tile's write fails, the run leaves the same files with the same
\* contents.
C9_OrderInvariant ==
    (Terminal /\ NoReadFailure /\ log # <<>>) =>
        \A perm \in OrderPermutations :
            RunFiles(perm, FaultyTiles, {}) = CompleteFiles

\* ------------------------------------------------- the 2000 x 2000 scenario

ScenarioRasters ==
    { [width |-> 2000, height |-> 2000,
       transform |-> [a |-> 500, b |-> 0, c |-> 0, d |-> 0, e |-> -500, f |-> 0],
       nodata |-> n, data |-> dd] :
         n \in BOOLEAN,
         dd \in {{}, {<<0, 0>>}, {<<1999, 1999>>}, {<<0, 0>>, <<1999, 1999>>}} }

InitScenario ==
    /\ src \in ScenarioRasters
    /\ grid_size_km \in {250, 500, 1000}
    /\ overlap_km \in {0, 25, 500, 1000}
    /\ SplitStart
    /\ BatchIdle

SpecScenario == InitScenario /\ [][Next]_vars

ScenarioRun ==
    /\ src.width = 2000 /\ src.height = 2000
    /\ src.transform.a = 500 /\ Abs(src.transform.e) = 500
    /\ grid_size_km = 1000 /\ overlap_km = 0

Planned == pc \in {"loop", "read", "write", "done"}

ReadIndices == {<<Reads[p].i, Reads[p].j>> : p \in 1..Len(Reads)}

\* C7 as stated: 2000 x 2000 pixels at 500 m with gridSizeKm = 1000 and
\* overlapKm = 0 give tiles and steps of 1000 px, a 2 x 2 grid, and four
\* windows of 1000 x 1000 px with indices (0,0), (1,0), (0,1), (1,1).
C7_Scenario_Original ==
    ScenarioRun =>
        /\ Planned =>
             /\ plan.grid_size_x = 1000 /\ plan.grid_size_y = 1000
             /\ plan.step_x = 1000 /\ plan.step_y = 1000
             /\ plan.num_grids_x = 2 /\ plan.num_grids_y = 2
        /\ pc = "done" =>
             /\ Len(Reads) = 4
             /\ ReadIndices = {<<0, 0>>, <<1, 0>>, <<0, 1>>, <<1, 1>>}
             /\ \A p \in 1..Len(Reads) :
                   Reads[p].window.width = 1000 /\ Reads[p].window.height = 1000

\* C7, amended: 2000 x 2000 pixels at 500 m with gridSizeKm = 1000 and
\* overlapKm = 0 give tiles and steps of 2000 px, a 1 x 1 grid, and the one
\* window (0,0) of 2000 x 2000 px at the origin.
C7_Scenario ==
    ScenarioRun =>
        /\ Planned =>
             /\ plan.grid_size_x = 2000 /\ plan.grid_size_y = 2000
             /\ plan.step_x = 2000 /\ plan.step_y = 2000
             /\ plan.num_grids_x = 1 /\ plan.num_grids_y = 1
        /\ pc = "done" =>
             /\ Len(Reads) = 1
             /\ ReadIndices = {<<0, 0>>}
             /\ Reads[1].window =
                  [col_off |-> 0, row_off |-> 0, width |-> 2000, height |-> 2000]

C7_Witness == ScenarioRun /\ pc = "done" /\ Len(Reads) = 1 /\ files # {}

\* ------------------------------------------- run_habitat_quality_analysis

SplitIdle ==
    /\ src = [width |-> 1, height |-> 1,
              transform |-> [a |-> 1000, b |-> 0, c |-> 0, d |-> 0,
                             e |-> -1000, f |-> 0],
              nodata |-> FALSE, data |-> {}]
    /\ grid_size_km = 0
    /\ overlap_km = 0
    /\ pc = "idle"
    /\ err = "none"
    /\ plan = NoPlan
    /\ order = <<>>
    /\ k = 1
    /\ window = NoWindow
    /\ files = {}
    /\ log = <<>>

\* The files glob() found, and those of them whose _2020_lulc.tif exists.
InitBatch ==
    /\ \E n \in 0..MaxFiles : lulc_files = [p \in 1..n |-> p]
    /\ fut_exists \in SUBSET (1..MaxFiles)
    /\ bpc = "start"
    /\ idx = 1
    /\ blog = <<>>
    /\ SplitIdle

\* What the driver reports about a file, and the step it was at.
BEvent(kind, file) == [kind |-> kind, file |-> file, at |-> bpc]

OnExceptionBreak ==
    /\ blog' = Append(blog, BEvent("error", lulc_files[idx]))
    /\ bpc' = "done"
    /\ UNCHANGED idx

\* except Exception as e: print(...); continue
OnException ==
    /\ blog' = Append(blog, BEvent("error", lulc_files[idx]))
    /\ idx' = idx + 1
    /\ bpc' = "loop"

\* not os.path.exists(lulc_fut_path)
PairMissing(file) == file \notin fut_exists

\* glob(search_pattern); if not lulc_files: return
BStart ==
    /\ bpc = "start"
    /\ bpc' = IF lulc_files = <<>> THEN "done" ELSE "loop"
    /\ UNCHANGED <<lulc_files, fut_exists, idx, blog>>
    /\ UNCHANGED splitVars

\* for lulc_cur_path in lulc_files: the next file, or the end of the list
BNext ==
    /\ bpc = "loop"
    /\ IF idx > Len(lulc_files)
       THEN bpc' = "done" /\ UNCHANGED blog
       ELSE bpc' = "check" /\ blog' = Append(blog, BEvent("begin", lulc_files[idx]))
    /\ UNCHANGED <<lulc_files, fut_exists, idx>>
    /\ UNCHANGED splitVars

\* The paired paths and the test for the future LULC: a missing pair skips
\* the file.
BCheck ==
    /\ bpc = "check"
    /\ IF PairMissing(lulc_files[idx])
       THEN /\ blog' = Append(blog, BEvent("skip", lulc_files[idx]))
            /\ idx' = idx + 1
            /\ bpc' = "loop"
       ELSE /\ bpc' = "prepare"
            /\ UNCHANGED <<blog, idx>>
    /\ UNCHANGED <<lulc_files, fut_exists>>
    /\ UNCHANGED splitVars

\* prepare_threats_table catches its own exceptions and returns True or
\* False; the result is not looked at.
BPrepare ==
    /\ bpc = "prepare"
    /\ \E ok \in BOOLEAN :
          blog' = Append(blog, BEvent(IF ok THEN "threats" ELSE "threatsfail",
                                      lulc_files[idx]))
    /\ bpc' = "execute"
    /\ UNCHANGED <<lulc_files, fut_exists, idx>>
    /\ UNCHANGED splitVars

\* natcap.invest.habitat_quality.execute(args) is called
BExecute ==
    /\ bpc = "execute"
    /\ blog' = Append(blog, BEvent("execute", lulc_files[idx]))
    /\ bpc' = "executing"
    /\ UNCHANGED <<lulc_files, fut_exists, idx>>
    /\ UNCHANGED splitVars

\* natcap.invest.habitat_quality.execute(args) returns
BExecuted ==
    /\ bpc = "executing"
    /\ bpc' = "rename"
    /\ UNCHANGED <<lulc_files, fut_exists, idx, blog>>
    /\ UNCHANGED splitVars

\* The renames of quality_c.tif and quality_f.tif
BRename ==
    /\ bpc = "rename"
    /\ bpc' = "cleanup"
    /\ UNCHANGED <<lulc_files, fut_exists, idx, blog>>
    /\ UNCHANGED splitVars

\* The removal of the intermediate directory; the file is finished.
BCleanup ==
    /\ bpc = "cleanup"
    /\ blog' = Append(blog, BEvent("finished", lulc_files[idx]))
    /\ idx' = idx + 1
    /\ bpc' = "loop"
    /\ UNCHANGED <<lulc_files, fut_exists>>
    /\ UNCHANGED splitVars

\* execute, os.rename or shutil.rmtree raises.
BRaise ==
    /\ bpc \in {"executing", "rename", "cleanup"}
    /\ OnException
    /\ UNCHANGED <<lulc_files, fut_exists>>
    /\ UNCHANGED splitVars

NextBatch ==
    \/ BStart
    \/ BNext
    \/ BCheck
    \/ BPrepare
    \/ BExecute
    \/ BExecuted
    \/ BRename
    \/ BCleanup
    \/ BRaise

SpecBatch == InitBatch /\ [][NextBatch]_vars

\* The interpreter runs the loop on: a step that can be taken is taken.
FairSpecBatch == SpecBatch /\ WF_vars(NextBatch)

\* ------------------------------------------------ claims: the batch driver

Begins == SelectSeq(blog, LAMBDA ev : ev.kind = "begin")

BatchIsolated ==
    /\ Len(Begins) <= Len(lulc_files)
    /\ \A p \in 1..Len(Begins) : Begins[p].file = lulc_files[p]
    /\ \A p \in 1..Len(blog) :
          blog[p].kind = "execute" => blog[p].file \in fut_exists
    /\ bpc = "done" => Len(Begins) = Len(lulc_files)

\* C10: the files are begun once each, in the order of the list; the model is
\* executed only for files whose _2020_lulc.tif exists; and whatever is
\* missing or raised on the way, the loop reaches the end of the list with
\* every file begun.
C10_BatchIsolation == [](BatchIsolated) /\ <>(bpc = "done")

C10_Witness ==
    /\ bpc = "done"
    /\ \E p \in 1..Len(blog), q \in 1..Len(blog), r \in 1..Len(blog) :
          /\ p < q /\ q < r
          /\ blog[p].kind = "error"
          /\ blog[q].kind = "skip"
          /\ blog[r].kind = "finished"

====
